---- MODULE Spec2Model ----
(***************************************************************************)
(* api-key-validator: the key utilities (test-utils.js, key-management.js) *)
(* and the Worker's fetch handler, as state machines.                      *)
(*                                                                         *)
(* Strings are sequences of one-character strings, byte buffers are        *)
(* sequences of 0..255.  A JavaScript value that may be a string, null or  *)
(* a thrown exception is a record [t, v].                                  *)
(*                                                                         *)
(* AES-256-GCM itself is library code (node:crypto, WebCrypto).  It is     *)
(* modelled as an ideal authenticated stream cipher: the ciphertext is the *)
(* plaintext combined bytewise with a keystream of (key, iv), and the tag  *)
(* is a function of (key, iv, ciphertext) that has no collisions on the    *)
(* inputs of the model.  Everything around it - dash stripping, hex        *)
(* parsing, slicing, UTF-8, try/catch, the scan loops - is the code's.     *)
(***************************************************************************)
EXTENDS Integers, Sequences, FiniteSets, TLC

VARIABLES
    encryptedKeys,  \* utility side: the encryptedKeys array handed to validateApiKey
    origin,         \* ghost: for each entry of encryptedKeys, how it was made
    call,           \* utility side: the last utility call, its arguments and result, and
                    \* (ghost) the entries validateApiKey has decrypted, in order
    env,            \* Worker: the environment bindings (ENCRYPTION_KEY, path settings)
    kv,             \* Worker: the names held by the API_KEYS namespace
    req,            \* Worker: the request being handled, the handler's position and
                    \* (ghost) the entries of keyList it has decrypted, in order
    gen,            \* generators: the last call of generateApiKey(s), its arguments and result
    cli,            \* key management: the command being run and its position
    parked          \* Worker: a second request, its handler suspended at an await
                    \* while the handler of req runs

vars == <<encryptedKeys, origin, call, env, kv, req, gen, cli, parked>>

(***************************************************************************)
(* Bounds                                                                  *)
(***************************************************************************)
MaxKeys == 2        \* longest encryptedKeys array
MaxStore == 2       \* most names in the API_KEYS namespace
MaxCount == 2       \* most keys asked of generateApiKeys
MaxCommands == 2    \* most commands run on one namespace
MaxLength == 10     \* every length from 0 to this is asked of generateApiKey

(***************************************************************************)
(* JavaScript values                                                       *)
(***************************************************************************)
JsStr(s) == [t |-> "string", v |-> s]
JsNull == [t |-> "null", v |-> <<>>]
JsThrow == [t |-> "throw", v |-> <<>>]
JsBool(b) == [t |-> "boolean", v |-> IF b THEN <<"true">> ELSE <<"false">>]

\* a === b for a value a and a string b
StrictEqualsStr(a, s) == a.t = "string" /\ a.v = s

(***************************************************************************)
(* Characters, hex and UTF-8                                               *)
(***************************************************************************)
HexDigits == <<"0","1","2","3","4","5","6","7","8","9","a","b","c","d","e","f">>
HexUpper == <<"0","1","2","3","4","5","6","7","8","9","A","B","C","D","E","F">>

\* the value of each hex digit, of either case
HexTable ==
    [c \in {HexDigits[i] : i \in 1..16} \cup {HexUpper[i] : i \in 1..16} |->
        (CHOOSE i \in 1..16 : HexDigits[i] = c \/ HexUpper[i] = c) - 1]

IsHexChar(c) == c \in DOMAIN HexTable
HexVal(c) == HexTable[c]

\* The printable ASCII characters, code 32 to 126, in order (the double quote,
\* the backslash and the backtick are written by name).
Ascii == <<" ","!","DQUOTE","#","$","%","&","'","(",")","*","+",",","-",".","/",
           "0","1","2","3","4","5","6","7","8","9",":",";","<","=",">","?",
           "@","A","B","C","D","E","F","G","H","I","J","K","L","M","N","O",
           "P","Q","R","S","T","U","V","W","X","Y","Z","[","BACKSLASH","]","^","_",
           "BACKTICK","a","b","c","d","e","f","g","h","i","j","k","l","m","n","o",
           "p","q","r","s","t","u","v","w","x","y","z","{","|","}","~">>

AsciiTable ==
    [c \in {Ascii[i] : i \in 1..Len(Ascii)} |->
        (CHOOSE i \in 1..Len(Ascii) : Ascii[i] = c) + 31]

IsAscii(c) == c \in DOMAIN AsciiTable
AsciiCode(c) == AsciiTable[c]

\* One character outside ASCII, U+00E9, and the replacement character U+FFFD
\* that a UTF-8 decoder emits for bytes that are no character.
EAcute == "U+00E9"
Replacement == "U+FFFD"

RECURSIVE Flatten(_)
Flatten(ss) == IF ss = <<>> THEN <<>> ELSE Head(ss) \o Flatten(Tail(ss))

\* cipher.update(apiKey, 'utf8', ...): the UTF-8 bytes of a string
Utf8Char(c) ==
    IF IsAscii(c) THEN <<AsciiCode(c)>>
    ELSE IF c = EAcute THEN <<195, 169>>
    ELSE <<239, 191, 189>>

Utf8Encode(s) == Flatten([i \in 1..Len(s) |-> Utf8Char(s[i])])

\* decipher.update(..., 'utf8') / TextDecoder.decode: bytes to a string, a
\* byte sequence that is no character becoming U+FFFD
RECURSIVE Utf8DecodeFrom(_, _)
Utf8DecodeFrom(b, i) ==
    IF i > Len(b) THEN <<>>
    ELSE IF b[i] >= 32 /\ b[i] <= 126
         THEN <<Ascii[b[i] - 31]>> \o Utf8DecodeFrom(b, i + 1)
    ELSE IF b[i] = 195 /\ i < Len(b) /\ b[i + 1] = 169
         THEN <<EAcute>> \o Utf8DecodeFrom(b, i + 2)
    ELSE IF b[i] = 239 /\ i + 1 < Len(b) /\ b[i + 1] = 191 /\ b[i + 2] = 189
         THEN <<Replacement>> \o Utf8DecodeFrom(b, i + 3)
    ELSE <<Replacement>> \o Utf8DecodeFrom(b, i + 1)

Utf8Decode(b) == Utf8DecodeFrom(b, 1)

\* buffer.toString('hex') / b.toString(16).padStart(2, '0'): two lowercase
\* digits per byte
ToHex(b) ==
    [i \in 1..(2 * Len(b)) |->
        IF i % 2 = 1 THEN HexDigits[(b[(i + 1) \div 2] \div 16) + 1]
        ELSE HexDigits[(b[i \div 2] % 16) + 1]]

\* Buffer.from(s, 'hex'): whole pairs of hex digits, stopping at the first
\* pair that is not hex; an odd last character is dropped
NodeHexDecode(s) ==
    LET n == Len(s) \div 2
        good(i) == IsHexChar(s[2 * i - 1]) /\ IsHexChar(s[2 * i])
        bad == {i \in 1..n : ~good(i)}
        k == IF bad = {} THEN n ELSE (CHOOSE i \in bad : \A j \in bad : i <= j) - 1
    IN [i \in 1..k |-> 16 * HexVal(s[2 * i - 1]) + HexVal(s[2 * i])]

\* parseInt(chunk, 16) of a chunk of one or two characters, stored into a
\* Uint8Array: the longest hex prefix after an optional sign, NaN storing 0
ParseInt16(chunk) ==
    LET c1 == chunk[1]
        two == Len(chunk) = 2
    IN IF IsHexChar(c1)
       THEN IF two /\ IsHexChar(chunk[2])
            THEN 16 * HexVal(c1) + HexVal(chunk[2])
            ELSE HexVal(c1)
       ELSE IF c1 = "-" /\ two /\ IsHexChar(chunk[2])
            THEN (256 - HexVal(chunk[2])) % 256
       ELSE 0

\* s.match(/.{1,2}/g).map(byte => parseInt(byte, 16)) into a Uint8Array;
\* match gives null for the empty string and the map throws
WorkerHexThrows(s) == Len(s) = 0

WorkerHexDecode(s) ==
    LET n == (Len(s) + 1) \div 2
    IN [i \in 1..n |->
          ParseInt16(SubSeq(s, 2 * i - 1, IF 2 * i <= Len(s) THEN 2 * i ELSE Len(s)))]

\* s.slice(a, b) with 0 <= a <= b, as JavaScript clamps it
Slice(s, a, b) ==
    LET hi == IF b > Len(s) THEN Len(s) ELSE b
    IN IF a >= hi THEN <<>> ELSE SubSeq(s, a + 1, hi)

\* key.replace(/-/g, '')
RemoveDashes(s) == SelectSeq(s, LAMBDA c : c # "-")

\* s.match(/.{1,8}/g).join('-')
JoinGroups8(s) ==
    LET n == Len(s) + ((Len(s) - 1) \div 8)
    IN [i \in 1..n |-> IF i % 9 = 0 THEN "-" ELSE s[i - (i \div 9)]]

StartsWith(s, p) == Len(p) <= Len(s) /\ SubSeq(s, 1, Len(p)) = p

(***************************************************************************)
(* AES-GCM (library): an ideal authenticated stream cipher                 *)
(***************************************************************************)
RECURSIVE WeightedSum(_, _)
WeightedSum(b, i) == IF i = 0 THEN 0 ELSE i * b[i] + WeightedSum(b, i - 1)

Digest(b) == (WeightedSum(b, Len(b)) + 7 * Len(b)) % 256

\* byte i of the keystream, seed being what key and iv give
Keystream(seed, i) == (seed + 11 * i) % 256

KeystreamSeed(key, iv) == Digest(key) + 3 * Digest(iv)

\* cipher.update + cipher.final: as long as the plaintext, no padding
GcmEncryptBytes(key, iv, pt) ==
    LET seed == KeystreamSeed(key, iv)
    IN [i \in 1..Len(pt) |-> (pt[i] + Keystream(seed, i)) % 256]

GcmDecryptBytes(key, iv, ct) ==
    LET seed == KeystreamSeed(key, iv)
    IN [i \in 1..Len(ct) |-> (ct[i] + 256 - Keystream(seed, i)) % 256]

\* cipher.getAuthTag(): 16 bytes, every one depending on key, iv and ciphertext
GcmTag(key, iv, ct) ==
    LET dk == Digest(key)
        di == Digest(iv)
        dc == Digest(ct)
    IN [j \in 1..16 |->
          (j * dk + (j + 2) * di + (2 * j + 1) * dc
             + (IF j <= Len(ct) THEN ct[j] ELSE j)) % 256]

\* decipher.final(): the tag given must be the leading bytes of the true tag
GcmTagOk(key, iv, ct, tag) == tag = SubSeq(GcmTag(key, iv, ct), 1, Len(tag))

\* node:crypto accepts authentication tags of these byte lengths for GCM
NodeAuthTagLengths == {4, 8, 12, 13, 14, 15, 16}

\* WebCrypto importKey("raw", ..., AES-GCM) accepts keys of these byte lengths
AesKeyLengths == {16, 24, 32}

(***************************************************************************)
(* test-utils.js                                                           *)
(***************************************************************************)

\* encryptApiKey(apiKey, encryptionKey), iv being what crypto.randomBytes(16)
\* returned.  createCipheriv throws on a key that is not 32 bytes; nothing
\* catches it.
encryptApiKey(apiKey, encryptionKey, iv) ==
    LET normalizedKey == RemoveDashes(encryptionKey)
        keyBytes == NodeHexDecode(normalizedKey)
        encrypted == GcmEncryptBytes(keyBytes, iv, Utf8Encode(apiKey))
        authTag == GcmTag(keyBytes, iv, encrypted)
    IN IF Len(keyBytes) # 32 THEN JsThrow
       ELSE JsStr(ToHex(iv) \o ToHex(authTag) \o ToHex(encrypted))

\* DecryptTry keeping the dashes of the key
DecryptTry_KeepDashes(encryptedKey, encryptionKey) ==
    LET iv == NodeHexDecode(Slice(encryptedKey, 0, 32))
        authTag == NodeHexDecode(Slice(encryptedKey, 32, 64))
        encrypted == NodeHexDecode(Slice(encryptedKey, 64, Len(encryptedKey)))
        keyBytes == NodeHexDecode(encryptionKey)
    IN IF Len(keyBytes) # 32 \/ Len(iv) = 0 THEN JsThrow
       ELSE IF Len(authTag) \notin NodeAuthTagLengths THEN JsThrow
       ELSE IF ~GcmTagOk(keyBytes, iv, encrypted, authTag) THEN JsThrow
       ELSE JsStr(Utf8Decode(GcmDecryptBytes(keyBytes, iv, encrypted)))

\* DecryptTry never setting the authentication tag, so that final() checks none
DecryptTry_NoTagCheck(encryptedKey, encryptionKey) ==
    LET normalizedKey == RemoveDashes(encryptionKey)
        iv == NodeHexDecode(Slice(encryptedKey, 0, 32))
        encrypted == NodeHexDecode(Slice(encryptedKey, 64, Len(encryptedKey)))
        keyBytes == NodeHexDecode(normalizedKey)
    IN IF Len(keyBytes) # 32 \/ Len(iv) = 0 THEN JsThrow
       ELSE JsStr(Utf8Decode(GcmDecryptBytes(keyBytes, iv, encrypted)))

\* The try block of decryptApiKey: the decrypted string, or a throw
DecryptTry(encryptedKey, encryptionKey) ==
    LET normalizedKey == RemoveDashes(encryptionKey)
        iv == NodeHexDecode(Slice(encryptedKey, 0, 32))
        authTag == NodeHexDecode(Slice(encryptedKey, 32, 64))
        encrypted == NodeHexDecode(Slice(encryptedKey, 64, Len(encryptedKey)))
        keyBytes == NodeHexDecode(normalizedKey)
    IN IF Len(keyBytes) # 32 \/ Len(iv) = 0 THEN JsThrow       \* createDecipheriv
       ELSE IF Len(authTag) \notin NodeAuthTagLengths THEN JsThrow  \* setAuthTag
       ELSE IF ~GcmTagOk(keyBytes, iv, encrypted, authTag) THEN JsThrow  \* final
       ELSE JsStr(Utf8Decode(GcmDecryptBytes(keyBytes, iv, encrypted)))

\* decryptApiKey without its try/catch
decryptApiKey_NoCatch(encryptedKey, encryptionKey) ==
    DecryptTry(encryptedKey, encryptionKey)

\* decryptApiKey(encryptedKey, encryptionKey): null when anything threw
decryptApiKey(encryptedKey, encryptionKey) ==
    LET r == DecryptTry(encryptedKey, encryptionKey)
    IN IF r.t = "throw" THEN JsNull ELSE r

\* generateEncryptionKey(formatted), bytes being what crypto.randomBytes(32)
\* returned
generateEncryptionKey(formatted, bytes) ==
    LET key == ToHex(bytes)
    IN IF formatted THEN JoinGroups8(key) ELSE key

\* isValidEncryptionKey with the regular expression lacking its i flag
isValidEncryptionKey_CaseSensitive(key) ==
    LET normalizedKey == RemoveDashes(key)
    IN Len(normalizedKey) = 64
       /\ \A i \in 1..Len(normalizedKey) :
             \E j \in 1..16 : HexDigits[j] = normalizedKey[i]

\* isValidEncryptionKey(key): /^[0-9a-f]{64}$/i on the key without dashes
isValidEncryptionKey(key) ==
    LET normalizedKey == RemoveDashes(key)
    IN Len(normalizedKey) = 64
       /\ \A i \in 1..Len(normalizedKey) : IsHexChar(normalizedKey[i])

\* validateApiKey(apiKey, encryptedKeys, encryptionKey): the for loop from
\* entry i on; an exception out of decryptApiKey would leave the loop
RECURSIVE ValidateFrom(_, _, _, _)
ValidateFrom(apiKey, keys, encryptionKey, i) ==
    IF i > Len(keys) THEN JsBool(FALSE)
    ELSE LET decrypted == decryptApiKey(keys[i], encryptionKey)
         IN IF decrypted.t = "throw" THEN JsThrow
            ELSE IF StrictEqualsStr(decrypted, apiKey) THEN JsBool(TRUE)
            ELSE ValidateFrom(apiKey, keys, encryptionKey, i + 1)

\* validateApiKey returning false from inside the loop, after the first entry
validateApiKey_FirstOnly(apiKey, keys, encryptionKey) ==
    IF Len(keys) = 0 THEN JsBool(FALSE)
    ELSE JsBool(StrictEqualsStr(decryptApiKey(keys[1], encryptionKey), apiKey))

\* validateApiKey with the comparison assigned to a flag in every turn and the
\* flag returned after the loop
validateApiKey_LastOnly(apiKey, keys, encryptionKey) ==
    IF Len(keys) = 0 THEN JsBool(FALSE)
    ELSE JsBool(StrictEqualsStr(decryptApiKey(keys[Len(keys)], encryptionKey), apiKey))

\* validateApiKey returning true when the loop ends
validateApiKey_DefaultTrue(apiKey, keys, encryptionKey) ==
    JsBool(TRUE)

validateApiKey(apiKey, keys, encryptionKey) ==
    ValidateFrom(apiKey, keys, encryptionKey, 1)

(***************************************************************************)
(* The inputs of the model                                                 *)
(***************************************************************************)
Group1 == <<"a","b","1","2","c","d","3","4">>
Group2 == <<"0","1","2","3","4","5","6","7">>
Group3 == <<"8","9","a","b","c","d","e","f">>

\* "ab12cd34" eight times: plain, grouped with dashes, and in upper case
Key1 == Group1 \o Group1 \o Group1 \o Group1 \o Group1 \o Group1 \o Group1 \o Group1
Key1Dashed == JoinGroups8(Key1)
Key1Upper == [i \in 1..64 |-> HexUpper[HexVal(Key1[i]) + 1]]
\* "0123456789abcdef" four times, grouped with dashes
Key2Dashed == JoinGroups8(Group2 \o Group3 \o Group2 \o Group3
                          \o Group2 \o Group3 \o Group2 \o Group3)
\* strings that are no encryption key
KeyShort == <<"a","b","c","1","2","3">>
KeyNonHex == [i \in 1..64 |-> "z"]
KeyTestName == <<"t","e","s","t","-","e","n","c","r","y","p","t","i","o","n","-","k","e","y">>

\* a key with one character replaced, and a key cut short
WithChar(k, i, c) == [k EXCEPT ![i] = c]

ValidKeys == {Key1, Key1Dashed, Key1Upper, Key2Dashed}
InvalidKeys == {KeyShort, KeyNonHex, KeyTestName}
EncryptionKeys == ValidKeys \cup InvalidKeys

\* strings handed to isValidEncryptionKey: the keys above, keys with one
\* character that is no hex digit, keys cut short, and a key with one more digit
RawKeys ==
    EncryptionKeys
    \cup {WithChar(Key1, i, c) : i \in 1..64, c \in {"g", "G", " "}}
    \cup {SubSeq(Key1, 1, n) : n \in 0..63}
    \cup {SubSeq(Key1Dashed, 1, n) : n \in 0..70}
    \cup {Key1 \o <<"a">>, <<"-">> \o Key1, Key1Upper \o <<"-", "-">>}

\* what crypto.randomBytes(16) may return
IvA == [i \in 1..16 |-> 16 * i - 1]
IvB == [i \in 1..16 |-> (37 * i + 5) % 256]
IVs == {IvA, IvB}

\* what crypto.randomBytes(32) may return
RandomKeyBytes == {[i \in 1..32 |-> (7 * i) % 256], [i \in 1..32 |-> 255 - i]}

\* plaintext API keys
Token1 == <<"k","1">>
Token2 == <<"k","2">>
TokenAccent == <<"k", EAcute>>
TokenNever == <<"n","o">>
StoredTokens == {Token1, Token2, TokenAccent, <<>>}
Tokens == StoredTokens \cup {TokenNever}

\* stored names that are no envelope of encryptApiKey: too short, not hex,
\* and an envelope with its last ciphertext digit changed
Envelope1A == encryptApiKey(Token1, Key1, IvA).v
TooShort == SubSeq(Envelope1A, 1, 40)
NotHex == [i \in 1..68 |-> "z"]
Tampered == [Envelope1A EXCEPT ![Len(Envelope1A)] =
                IF Envelope1A[Len(Envelope1A)] = "0" THEN "1" ELSE "0"]
ForeignNames == {TooShort, NotHex, Tampered}

\* how an entry of an encryptedKeys array was made: by encryptApiKey, or not
Enc(apiKey, key, iv) == [kind |-> "enc", apiKey |-> apiKey, key |-> key, iv |-> iv]
Foreign(name) == [kind |-> "foreign", apiKey |-> name, key |-> <<>>, iv |-> <<>>]

Origins ==
    {Enc(Token1, Key1Dashed, IvA), Enc(Token1, Key2Dashed, IvA),
     Enc(Token2, Key1, IvB), Enc(Token2, Key1Upper, IvA),
     Enc(TokenAccent, Key2Dashed, IvB), Enc(<<>>, Key1Dashed, IvB)}

EnvelopeOf(o) ==
    IF o.kind = "enc" THEN encryptApiKey(o.apiKey, o.key, o.iv).v ELSE o.apiKey

(***************************************************************************)
(* The utilities, called on drawn inputs                                   *)
(***************************************************************************)
NoCall == [op |-> "none", apiKey |-> <<>>, key |-> <<>>, iv |-> <<>>, idx |-> 0,
           visited |-> <<>>, keys |-> <<>>,
                result |-> JsNull]

InitUtil ==
    /\ origin = <<>>
    /\ encryptedKeys = <<>>
    /\ call = NoCall

\* encryptedKeys.push(encryptApiKey(apiKey, encryptionKey)), as createTestKeyData
\* and createMockEnvironment build the array
PushEncrypted(o) ==
    /\ call.op = "none"
    /\ Len(encryptedKeys) < MaxKeys
    /\ encryptedKeys' = Append(encryptedKeys, encryptApiKey(o.apiKey, o.key, o.iv).v)
    /\ origin' = Append(origin, o)
    /\ UNCHANGED <<call, env, kv, req, gen, cli, parked>>

\* an array handed to validateApiKey may hold any string
PushForeign(name) ==
    /\ call.op = "none"
    /\ Len(encryptedKeys) < MaxKeys
    /\ encryptedKeys' = Append(encryptedKeys, name)
    /\ origin' = Append(origin, Foreign(name))
    /\ UNCHANGED <<call, env, kv, req, gen, cli, parked>>

\* encryptApiKey(apiKey, key) with crypto.randomBytes(16) returning iv
EncryptCall(apiKey, key, iv) ==
    /\ call.op = "none"
    /\ call' = [op |-> "encrypt", apiKey |-> apiKey, key |-> key, iv |-> iv,
                idx |-> 0, visited |-> <<>>, keys |-> <<>>,
                result |-> encryptApiKey(apiKey, key, iv)]
    /\ UNCHANGED <<encryptedKeys, origin, env, kv, req, gen, cli, parked>>

\* decryptApiKey(encryptedKeys[i], key)
DecryptCall(i, key) ==
    /\ call.op = "none"
    /\ i \in 1..Len(encryptedKeys)
    /\ call' = [op |-> "decrypt", apiKey |-> <<>>, key |-> key, iv |-> <<>>,
                idx |-> i, visited |-> <<>>, keys |-> <<>>,
                result |-> decryptApiKey(encryptedKeys[i], key)]
    /\ UNCHANGED <<encryptedKeys, origin, env, kv, req, gen, cli, parked>>

\* validateApiKey(apiKey, encryptedKeys, key)
ValidateCall(apiKey, key) ==
    /\ call.op = "none"
    /\ call' = [op |-> "validate", apiKey |-> apiKey, key |-> key, iv |-> <<>>,
                idx |-> 0, visited |-> <<>>, keys |-> <<>>,
                result |-> validateApiKey(apiKey, encryptedKeys, key)]
    /\ UNCHANGED <<encryptedKeys, origin, env, kv, req, gen, cli, parked>>

\* isValidEncryptionKey(key)
IsValidCall(key) ==
    /\ call.op = "none"
    /\ call' = [op |-> "isValid", apiKey |-> <<>>, key |-> key, iv |-> <<>>,
                idx |-> 0, visited |-> <<>>, keys |-> <<>>,
                result |-> JsBool(isValidEncryptionKey(key))]
    /\ UNCHANGED <<encryptedKeys, origin, env, kv, req, gen, cli, parked>>

\* generateEncryptionKey(formatted) with crypto.randomBytes(32) returning bytes
GenerateKeyCall(formatted, bytes) ==
    /\ call.op = "none"
    /\ call' = [op |-> "generateKey", apiKey |-> <<>>,
                key |-> generateEncryptionKey(formatted, bytes), iv |-> bytes,
                idx |-> IF formatted THEN 1 ELSE 0,
                visited |-> <<>>, keys |-> <<>>,
                result |-> JsBool(isValidEncryptionKey(
                                    generateEncryptionKey(formatted, bytes)))]
    /\ UNCHANGED <<encryptedKeys, origin, env, kv, req, gen, cli, parked>>

(***************************************************************************)
(* The Worker (src/index.js)                                               *)
(***************************************************************************)
JsUndefined == [t |-> "undefined", v |-> <<>>]

\* !x for a string, null or undefined
Falsy(x) == x.t \in {"null", "undefined"} \/ (x.t = "string" /\ x.v = <<>>)

\* The try block of the Worker's decryptApiKey
WorkerDecryptTry(encryptedKey, encryptionKey) ==
    LET ivStr == Slice(encryptedKey, 0, 32)
        tagStr == Slice(encryptedKey, 32, 64)
        encrypted == Slice(encryptedKey, 64, Len(encryptedKey))
        keyStr == RemoveDashes(encryptionKey)
        iv == WorkerHexDecode(ivStr)
        authTag == WorkerHexDecode(tagStr)
        keyBytes == WorkerHexDecode(keyStr)
        encryptedBytes == WorkerHexDecode(encrypted)
        ciphertext == encryptedBytes \o authTag
        n == Len(ciphertext)
    IN IF WorkerHexThrows(ivStr) \/ WorkerHexThrows(tagStr) \/ WorkerHexThrows(keyStr)
       THEN JsThrow
       ELSE IF Len(keyBytes) \notin AesKeyLengths THEN JsThrow      \* importKey
       ELSE IF WorkerHexThrows(encrypted) THEN JsThrow
       ELSE IF n < 16 THEN JsThrow                                  \* decrypt
       ELSE IF ~GcmTagOk(keyBytes, iv, SubSeq(ciphertext, 1, n - 16),
                         SubSeq(ciphertext, n - 15, n)) THEN JsThrow
       ELSE JsStr(Utf8Decode(GcmDecryptBytes(keyBytes, iv,
                                             SubSeq(ciphertext, 1, n - 16))))

\* The Worker's decryptApiKey: null when anything threw
WorkerDecryptApiKey(encryptedKey, encryptionKey) ==
    LET r == WorkerDecryptTry(encryptedKey, encryptionKey)
    IN IF r.t = "throw" THEN JsNull ELSE r

\* The Worker's encryptApiKey, iv being what crypto.getRandomValues filled in:
\* the IV, then what crypto.subtle.encrypt returned (ciphertext, then tag).
\* Nothing catches what the key parsing or importKey throws.
WorkerEncryptApiKey(apiKey, encryptionKey, iv) ==
    LET keyStr == RemoveDashes(encryptionKey)
        keyBytes == WorkerHexDecode(keyStr)
        ct == GcmEncryptBytes(keyBytes, iv, Utf8Encode(apiKey))
    IN IF WorkerHexThrows(keyStr) THEN JsThrow
       ELSE IF Len(keyBytes) \notin AesKeyLengths THEN JsThrow
       ELSE JsStr(ToHex(iv) \o ToHex(ct \o GcmTag(keyBytes, iv, ct)))

\* the settings of the deployment (wrangler vars, as the Worker's tests set them)
ProtectedPathPrefix == <<"/","m","e","d","i","a","/">>
ExcludedPaths == <<<<"/","m","e","d","i","a","/","i","c","o","n","s","/">>,
                   <<"/","m","e","d","i","a","/","d","e","s","i","g","n","e","r","-","i","m","a","g","e","s","/">>>>

Paths == {<<"/","s","o","m","e","/","p","a","t","h">>,
          <<"/","m","e","d","i","a","/","i","c","o","n","s","/","i","c","o","n",".","p","n","g">>,
          <<"/","m","e","d","i","a","/","d","e","s","i","g","n","e","r","-","i","m","a","g","e","s","/","i","m","a","g","e",".","j","p","g">>,
          <<"/","m","e","d","i","a","/","p","r","o","t","e","c","t","e","d","/","f","i","l","e",".","j","p","g">>}

\* NeedsValidation without the excluded paths
NeedsValidation_NoExclusions(path, e) ==
    StartsWith(path, e.PROTECTED_PATH_PREFIX)

\* path.startsWith(protectedPathPrefix) &&
\*   !excludedPaths.some(excludedPath => path.startsWith(excludedPath))
NeedsValidation(path, e) ==
    /\ StartsWith(path, e.PROTECTED_PATH_PREFIX)
    /\ ~\E i \in 1..Len(e.EXCLUDED_PATHS) : StartsWith(path, e.EXCLUDED_PATHS[i])

\* request.headers.get('x-api-key'): null, or the header's value
Headers == {JsNull} \cup {JsStr(t) : t \in {Token1, Token2, TokenNever, <<>>}}

\* env.ENCRYPTION_KEY: not set, or a string
Secrets == {JsUndefined}
           \cup {JsStr(k) : k \in {Key1Dashed, Key2Dashed, KeyShort, KeyNonHex, KeyTestName}}

\* the API keys and encryption keys the upload tool is run with
UploadTokens == {Token1, Token2}
UploadKeys == {Key1Dashed, Key2Dashed}
\* names put into the namespace by other means
StoreForeignNames == {NotHex, Tampered}

\* header is the x-api-key header the request carries; apiKey is what the
\* handler has read of it
Idle == [pc |-> "idle", path |-> <<>>, header |-> JsNull, apiKey |-> JsNull, keyList |-> <<>>, idx |-> 0,
         isValidKey |-> FALSE, status |-> 0, body |-> "", forwarded |-> FALSE,
         threw |-> FALSE, readHeader |-> FALSE, readKey |-> FALSE, listed |-> FALSE,
         decrypts |-> 0, visited |-> <<>>]

RespMissingApiKey == "Unauthorized: Missing API key"
RespMissingKey == "Server configuration error: Missing encryption key. Please set the ENCRYPTION_KEY Worker Secret."
RespInvalidApiKey == "Unauthorized: Invalid API key"

\* new Response(body, {status})
Respond(r, status, body) == [r EXCEPT !.pc = "done", !.status = status, !.body = body]
\* return fetch(request)
Forward(r) == [r EXCEPT !.pc = "done", !.forwarded = TRUE]
\* an exception leaves the handler
Throw(r) == [r EXCEPT !.pc = "done", !.threw = TRUE]

InitWorker ==
    /\ env \in [ENCRYPTION_KEY : Secrets, PROTECTED_PATH_PREFIX : {ProtectedPathPrefix},
                EXCLUDED_PATHS : {ExcludedPaths}]
    /\ kv = <<>>
    /\ req = Idle

\* FetchStart looking at the encryption key before the header
FetchStart_KeyFirst(path, header) ==
    /\ req.pc \in {"idle", "done"}
    /\ LET r0 == [Idle EXCEPT !.path = path, !.header = header]
           r1 == [r0 EXCEPT !.readKey = TRUE]
           r2 == [r1 EXCEPT !.apiKey = header, !.readHeader = TRUE]
       IN req' =
            IF ~NeedsValidation(path, env) THEN Forward(r0)
            ELSE IF Falsy(env.ENCRYPTION_KEY) THEN Respond(r1, 500, RespMissingKey)
            ELSE IF Falsy(header) THEN Respond(r2, 403, RespMissingApiKey)
            ELSE [r2 EXCEPT !.pc = "encrypt"]
    /\ UNCHANGED <<env, kv, encryptedKeys, origin, call, gen, cli, parked>>

\* fetch(request, env, ctx) up to its first await
FetchStart(path, header) ==
    /\ req.pc \in {"idle", "done"}
    /\ LET r0 == [Idle EXCEPT !.path = path, !.header = header]
           r1 == [r0 EXCEPT !.apiKey = header, !.readHeader = TRUE]
           r2 == [r1 EXCEPT !.readKey = TRUE]
       IN req' =
            IF ~NeedsValidation(path, env) THEN Forward(r0)
            ELSE IF Falsy(header)
                 THEN Respond(r1, 403, RespMissingApiKey)
            ELSE IF Falsy(env.ENCRYPTION_KEY)
                 THEN Respond(r2, 500, RespMissingKey)
            ELSE [r2 EXCEPT !.pc = "encrypt"]
    /\ UNCHANGED <<env, kv, encryptedKeys, origin, call, gen, cli, parked>>

\* await encryptApiKey(apiKey, encryptionKey): its value is not used
FetchEncrypt(iv) ==
    /\ req.pc = "encrypt"
    /\ req' = IF WorkerEncryptApiKey(req.apiKey.v, env.ENCRYPTION_KEY.v, iv).t = "throw"
              THEN Throw(req)
              ELSE [req EXCEPT !.pc = "list"]
    /\ UNCHANGED <<env, kv, encryptedKeys, origin, call, gen, cli, parked>>

\* await env.API_KEYS.list()
FetchList ==
    /\ req.pc = "list"
    /\ req' = [req EXCEPT !.pc = "scan", !.keyList = kv, !.listed = TRUE, !.idx = 1]
    /\ UNCHANGED <<env, kv, encryptedKeys, origin, call, gen, cli, parked>>

\* FetchScan taking any entry that decrypts for a match
FetchScan_AnyDecrypts ==
    /\ req.pc = "scan"
    /\ req' =
         IF req.idx > Len(req.keyList)
         THEN Respond(req, 403, RespInvalidApiKey)
         ELSE LET decryptedStored ==
                      WorkerDecryptApiKey(req.keyList[req.idx], env.ENCRYPTION_KEY.v)
                  r1 == [req EXCEPT !.decrypts = @ + 1, !.visited = Append(@, req.idx)]
              IN IF ~Falsy(decryptedStored)
                 THEN Forward([r1 EXCEPT !.isValidKey = TRUE])
                 ELSE [r1 EXCEPT !.idx = @ + 1]
    /\ UNCHANGED <<env, kv, encryptedKeys, origin, call, gen, cli, parked>>

\* FetchScan reading the namespace in every turn of the loop, not the list
\* it was given
FetchScan_ReadsStore ==
    /\ req.pc = "scan"
    /\ req' =
         IF req.idx > Len(kv)
         THEN Respond(req, 403, RespInvalidApiKey)
         ELSE LET decryptedStored ==
                      WorkerDecryptApiKey(kv[req.idx], env.ENCRYPTION_KEY.v)
                  r1 == [req EXCEPT !.decrypts = @ + 1, !.visited = Append(@, req.idx)]
              IN IF StrictEqualsStr(decryptedStored, req.apiKey.v)
                 THEN Forward([r1 EXCEPT !.isValidKey = TRUE])
                 ELSE [r1 EXCEPT !.idx = @ + 1]
    /\ UNCHANGED <<env, kv, encryptedKeys, origin, call, gen, cli, parked>>

\* one turn of the for loop, and what follows the loop
FetchScan ==
    /\ req.pc = "scan"
    /\ req' =
         IF req.idx > Len(req.keyList)
         THEN Respond(req, 403, RespInvalidApiKey)
         ELSE LET decryptedStored ==
                      WorkerDecryptApiKey(req.keyList[req.idx], env.ENCRYPTION_KEY.v)
                  r1 == [req EXCEPT !.decrypts = @ + 1, !.visited = Append(@, req.idx)]
              IN IF StrictEqualsStr(decryptedStored, req.apiKey.v)
                 THEN Forward([r1 EXCEPT !.isValidKey = TRUE])
                 ELSE [r1 EXCEPT !.idx = @ + 1]
    /\ UNCHANGED <<env, kv, encryptedKeys, origin, call, gen, cli, parked>>

\* a put that replaces what the namespace holds
KvPut_Replace(store, name) == <<name>>

\* a put of name into the namespace: a name already there is kept once
KvPut(store, name) ==
    IF \E i \in 1..Len(store) : store[i] = name THEN store ELSE Append(store, name)

\* one turn of the loop of uploadApiKeys: encrypt, then wrangler kv:key put,
\* which may fail
UploadKey(apiKey, encryptionKey, iv, ok) ==
    /\ Len(kv) < MaxStore
    /\ LET encryptedKey == encryptApiKey(apiKey, encryptionKey, iv)
       IN kv' = IF encryptedKey.t = "string" /\ ok THEN KvPut(kv, encryptedKey.v) ELSE kv
    /\ UNCHANGED <<env, req, encryptedKeys, origin, call, gen, cli, parked>>

\* a name put into the namespace by other means than the upload tool
PutForeignName(name) ==
    /\ Len(kv) < MaxStore
    /\ kv' = KvPut(kv, name)
    /\ UNCHANGED <<env, req, encryptedKeys, origin, call, gen, cli, parked>>

(***************************************************************************)
(* test-utils.js and key-management.js: generating API keys                *)
(***************************************************************************)
\* the base64 alphabet of buffer.toString('base64')
Base64Chars ==
    <<"A","B","C","D","E","F","G","H","I","J","K","L","M","N","O","P">>
    \o <<"Q","R","S","T","U","V","W","X","Y","Z","a","b","c","d","e","f">>
    \o <<"g","h","i","j","k","l","m","n","o","p","q","r","s","t","u","v">>
    \o <<"w","x","y","z","0","1","2","3","4","5","6","7","8","9","+","/">>

\* buffer.toString('base64'): four characters for every three bytes, the last
\* group padded with "="
Base64Encode(b) ==
    LET n == Len(b)
        byte(i) == IF i <= n THEN b[i] ELSE 0
        group(g) ==
            LET b1 == byte(3 * g - 2)
                b2 == byte(3 * g - 1)
                b3 == byte(3 * g)
            IN <<Base64Chars[(b1 \div 4) + 1],
                 Base64Chars[((b1 % 4) * 16 + (b2 \div 16)) + 1],
                 IF 3 * g - 1 > n THEN "="
                 ELSE Base64Chars[((b2 % 16) * 4 + (b3 \div 64)) + 1],
                 IF 3 * g > n THEN "=" ELSE Base64Chars[(b3 % 64) + 1]>>
    IN Flatten([g \in 1..((n + 2) \div 3) |-> group(g)])

\* `${i}` for an integer i >= 0
RECURSIVE ToDecimal(_)
ToDecimal(i) ==
    IF i < 10 THEN <<HexDigits[i + 1]>>
    ELSE ToDecimal(i \div 10) \o <<HexDigits[(i % 10) + 1]>>

\* NumRandomBytes drawing half a byte for every character
NumRandomBytes_Half(length) == (length + 1) \div 2

\* Math.ceil(length * 0.75), the number of random bytes generateApiKey draws
NumRandomBytes(length) == (3 * length + 3) \div 4

\* generateApiKey formatting the random part only, the prefix put in front after
generateApiKey_FormatFirst(options, bytes) ==
    LET raw == IF options.useSpecialChars
               THEN Slice(Base64Encode(bytes), 0, options.length)
               ELSE Slice(ToHex(bytes), 0, options.length)
    IN IF options.formatted /\ Len(raw) >= 8
       THEN options.prefix \o JoinGroups8(raw)
       ELSE options.prefix \o raw

\* generateApiKey(options), the defaults filled in, bytes being what
\* crypto.randomBytes(Math.ceil(length * 0.75)) returned
generateApiKey(options, bytes) ==
    LET raw == IF options.useSpecialChars
               THEN Slice(Base64Encode(bytes), 0, options.length)
               ELSE Slice(ToHex(bytes), 0, options.length)
        apiKey == options.prefix \o raw
    IN IF options.formatted /\ Len(apiKey) >= 8 THEN JoinGroups8(apiKey) ELSE apiKey

\* the prefix generateApiKeys hands to generateApiKey for key i, taking the
\* prefix of the options as it is
KeyPrefix_AsGiven(prefix, i) ==
    IF prefix.t = "string" /\ prefix.v # <<>>
    THEN prefix.v
    ELSE <<"k","e","y">> \o ToDecimal(i) \o <<"-">>

\* options.prefix ? `${options.prefix}${i}-` : `key${i}-`
KeyPrefix(prefix, i) ==
    IF prefix.t = "string" /\ prefix.v # <<>>
    THEN prefix.v \o ToDecimal(i) \o <<"-">>
    ELSE <<"k","e","y">> \o ToDecimal(i) \o <<"-">>

\* generateApiKeys(count, options): options.prefix is a string or undefined,
\* bytes[i + 1] is what crypto.randomBytes returned for key i
generateApiKeys(count, options, bytes) ==
    [k \in 1..count |->
        generateApiKey([options EXCEPT !.prefix = KeyPrefix(options.prefix, k - 1)],
                       bytes[k])]

\* prefixes: shorter than a group of 8, longer, and one whose 9th character is
\* a dash; the prefix of rotateApiKeys and the default of the generate command
PrefixTest == <<"t","e","s","t","-">>
PrefixMediaApi == <<"m","e","d","i","a","-","a","p","i","-">>
PrefixTestKey == <<"t","e","s","t","-","k","e","y","-">>
PrefixRotated == <<"r","o","t","a","t","e","d","-">>
PrefixApiKey == <<"a","p","i","-","k","e","y","-">>
GenPrefixes == {<<>>, PrefixTest, PrefixMediaApi, PrefixTestKey}

\* options.length
GenLengths == (0..MaxLength) \cup {16}

\* what crypto.randomBytes(n) may return
RandomSeeds == {7, 250}
RandomBytesOf(n, seed) == [i \in 1..n |-> (seed * i + 41) % 256]

\* the options of generateApiKey, its defaults filled in
Options(prefix, length, useSpecialChars, formatted) ==
    [prefix |-> prefix, length |-> length, useSpecialChars |-> useSpecialChars,
     formatted |-> formatted]

NoGen == [op |-> "none", prefix |-> JsUndefined, length |-> 0, useSpecialChars |-> FALSE,
          formatted |-> FALSE, count |-> 0, bytes |-> <<>>, result |-> <<>>]

\* generateApiKey({prefix, length, useSpecialChars, formatted})
GenerateApiKeyCall(prefix, length, useSpecialChars, formatted, seed) ==
    /\ gen.op = "none"
    /\ LET bytes == RandomBytesOf(NumRandomBytes(length), seed)
       IN gen' = [op |-> "generateApiKey", prefix |-> JsStr(prefix), length |-> length,
                  useSpecialChars |-> useSpecialChars, formatted |-> formatted,
                  count |-> 1, bytes |-> <<bytes>>,
                  result |-> <<generateApiKey(
                                 Options(prefix, length, useSpecialChars, formatted),
                                 bytes)>>]
    /\ UNCHANGED <<encryptedKeys, origin, call, env, kv, req, cli, parked>>

\* generateApiKeys(count, {prefix, length, useSpecialChars, formatted}), prefix
\* being a string or undefined
GenerateApiKeysCall(count, prefix, length, useSpecialChars, formatted, seeds) ==
    /\ gen.op = "none"
    /\ LET bytes == [k \in 1..count |-> RandomBytesOf(NumRandomBytes(length), seeds[k])]
       IN gen' = [op |-> "generateApiKeys", prefix |-> prefix, length |-> length,
                  useSpecialChars |-> useSpecialChars, formatted |-> formatted,
                  count |-> count, bytes |-> bytes,
                  result |-> generateApiKeys(
                                 count,
                                 Options(prefix, length, useSpecialChars, formatted),
                                 bytes)]
    /\ UNCHANGED <<encryptedKeys, origin, call, env, kv, req, cli, parked>>

\* executeGenerateCommand(args): --count, --length, --special and --prefix as
\* given, prefix being 'api-key-' without --prefix; result is the array handed
\* to saveApiKeysToFile
ExecuteGenerateCommand(count, prefixArg, length, useSpecialChars, seeds) ==
    /\ gen.op = "none"
    /\ LET prefix == IF prefixArg.t = "string" THEN prefixArg ELSE JsStr(PrefixApiKey)
           bytes == [k \in 1..count |-> RandomBytesOf(NumRandomBytes(length), seeds[k])]
       IN gen' = [op |-> "generateCommand", prefix |-> prefix, length |-> length,
                  useSpecialChars |-> useSpecialChars, formatted |-> TRUE,
                  count |-> count, bytes |-> bytes,
                  result |-> generateApiKeys(
                                 count, Options(prefix, length, useSpecialChars, TRUE),
                                 bytes)]
    /\ UNCHANGED <<encryptedKeys, origin, call, env, kv, req, cli, parked>>

(***************************************************************************)
(* key-management.js and cli-tools.js: the upload and rotate commands      *)
(***************************************************************************)
\* command line words
ArgFile == <<"k","e","y","s",".","j","s","o","n">>
ArgNamespace == <<"A","P","I","_","K","E","Y","S">>
ArgSetSecret == <<"-","-","s","e","t","-","s","e","c","r","e","t">>
ArgSetSecretShort == <<"-","s">>

\* what crypto.randomBytes(32) returns to the upload command
GeneratedKeyBytes == {[i \in 1..32 |-> (7 * i) % 256]}

\* the argument lists the upload command is run with
UploadArgs ==
    {<<ArgFile>>,
     <<ArgFile, ArgNamespace>>,
     <<ArgFile, ArgNamespace, Key1Dashed>>,
     <<ArgFile, ArgNamespace, KeyShort>>,
     <<ArgFile, ArgNamespace, ArgSetSecret>>,
     <<ArgFile, ArgNamespace, Key1Dashed, ArgSetSecretShort>>}

\* what the key file holds: a JSON array of API keys, or something else
KeyFile(keys) == [array |-> TRUE, keys |-> keys]
BadFile == [array |-> FALSE, keys |-> <<>>]
KeyFiles == {KeyFile(<<Token1, Token2>>), KeyFile(<<Token2>>), KeyFile(<<>>), BadFile}

\* the options the rotate command is run with, and what crypto.randomBytes
\* returns to it
RotateKeys == {Key1Dashed, KeyShort, <<>>}
RotateSeeds == {7}
RotateNamespaces == {ArgNamespace, <<>>}

\* rotateApiKeys leaves length at its default
DefaultLength == 32

\* attempts lists the wrangler kv:key put calls of the command, in order;
\* kvBefore is the namespace as the command found it and persisted the
\* (API key, encryption key) pairs ever put with success
CliIdle == [pc |-> "idle", cmd |-> "none", args |-> <<>>, apiKeys |-> <<>>, idx |-> 0,
            encryptionKey |-> <<>>, generatedKey |-> FALSE, secretSet |-> FALSE,
            attempts |-> <<>>, exit |-> -1, threw |-> FALSE, said |-> "",
            newKeysCount |-> 0, outputFile |-> FALSE, reported |-> 0, saved |-> FALSE,
            kvBefore |-> <<>>, persisted |-> {}, runs |-> 0, metadata |-> FALSE]

\* a command starts
CliStart(cmd, args) ==
    [CliIdle EXCEPT !.cmd = cmd, !.args = args, !.kvBefore = kv,
                    !.persisted = cli.persisted, !.runs = cli.runs + 1]

\* process.exit(code) after console.error(said)
Exit(c, code, said) == [c EXCEPT !.pc = "done", !.exit = code, !.said = said]

SaidMissingArguments == "Error: Missing required arguments"
SaidInvalidKey == "Error: Invalid encryption key format"
SaidUploaded == "API keys uploaded successfully!"
SaidRotated == "API key rotation complete!"
SaidReadError == "Error reading API keys"

\* args.includes('--set-secret') || args.includes('-s')
HasSetSecret(args) ==
    \E i \in 1..Len(args) : args[i] = ArgSetSecret \/ args[i] = ArgSetSecretShort

\* ExecuteUploadCommand writing keys-metadata.json before it looks at the key
ExecuteUploadCommand_WriteFirst(args, file, keyBytes, secretOk) ==
    /\ cli.pc \in {"idle", "done"}
    /\ cli.runs < MaxCommands
    /\ LET c0 == CliStart("upload", args)
           given == IF Len(args) >= 3 THEN JsStr(args[3]) ELSE JsUndefined
           encryptionKey == IF Falsy(given) THEN generateEncryptionKey(TRUE, keyBytes)
                            ELSE given.v
           setSecret == HasSetSecret(args)
           c1 == [c0 EXCEPT !.encryptionKey = encryptionKey,
                            !.generatedKey = Falsy(given),
                            !.metadata = TRUE,
                            !.secretSet = setSecret /\ secretOk]
       IN IF Len(args) < 2
          THEN cli' = Exit(c0, 1, SaidMissingArguments) /\ env' = env
          ELSE IF ~Falsy(given) /\ ~isValidEncryptionKey(given.v)
          THEN cli' = Exit([c0 EXCEPT !.metadata = TRUE], 1, SaidInvalidKey) /\ env' = env
          ELSE /\ env' = IF setSecret /\ secretOk
                         THEN [env EXCEPT !.ENCRYPTION_KEY = JsStr(encryptionKey)]
                         ELSE env
               /\ cli' = IF ~file.array THEN Exit(c1, 1, SaidReadError)
                         ELSE [c1 EXCEPT !.pc = "uploading", !.apiKeys = file.keys,
                                         !.idx = 1]
    /\ UNCHANGED <<encryptedKeys, origin, call, kv, req, gen, parked>>

\* executeUploadCommand(args) up to the loop of uploadApiKeys: file is what the
\* key file holds, keyBytes what crypto.randomBytes(32) would return, secretOk
\* whether wrangler secret put succeeds; metadata records that
\* keys-metadata.json was written
ExecuteUploadCommand(args, file, keyBytes, secretOk) ==
    /\ cli.pc \in {"idle", "done"}
    /\ cli.runs < MaxCommands
    /\ LET c0 == CliStart("upload", args)
           given == IF Len(args) >= 3 THEN JsStr(args[3]) ELSE JsUndefined
           encryptionKey == IF Falsy(given) THEN generateEncryptionKey(TRUE, keyBytes)
                            ELSE given.v
           setSecret == HasSetSecret(args)
           c1 == [c0 EXCEPT !.encryptionKey = encryptionKey,
                            !.generatedKey = Falsy(given),
                            !.metadata = TRUE,
                            !.secretSet = setSecret /\ secretOk]
       IN IF Len(args) < 2
          THEN cli' = Exit(c0, 1, SaidMissingArguments) /\ env' = env
          ELSE IF ~Falsy(given) /\ ~isValidEncryptionKey(given.v)
          THEN cli' = Exit(c0, 1, SaidInvalidKey) /\ env' = env
          ELSE /\ env' = IF setSecret /\ secretOk
                         THEN [env EXCEPT !.ENCRYPTION_KEY = JsStr(encryptionKey)]
                         ELSE env
               /\ cli' = IF ~file.array THEN Exit(c1, 1, SaidReadError)
                         ELSE [c1 EXCEPT !.pc = "uploading", !.apiKeys = file.keys,
                                         !.idx = 1]
    /\ UNCHANGED <<encryptedKeys, origin, call, kv, req, gen, parked>>

\* executeRotateCommand(args), the options parsed, up to the loop of
\* uploadApiKeys: rotateApiKeys generates the new keys
ExecuteRotateCommand(namespace, encryptionKey, count, outputFile, seeds) ==
    /\ cli.pc \in {"idle", "done"}
    /\ cli.runs < MaxCommands
    /\ LET c0 == [CliStart("rotate", <<namespace, encryptionKey>>)
                     EXCEPT !.encryptionKey = encryptionKey, !.newKeysCount = count,
                            !.outputFile = outputFile]
           bytes == [k \in 1..count |->
                        RandomBytesOf(NumRandomBytes(DefaultLength), seeds[k])]
           newKeys == generateApiKeys(
                          count, Options(JsStr(PrefixRotated), DefaultLength, FALSE, TRUE),
                          bytes)
       IN cli' =
            IF namespace = <<>> \/ encryptionKey = <<>>
            THEN Exit(c0, 1, SaidMissingArguments)
            ELSE IF ~isValidEncryptionKey(encryptionKey)
            THEN Exit(c0, 1, SaidInvalidKey)
            ELSE [c0 EXCEPT !.pc = "uploading", !.apiKeys = newKeys, !.idx = 1]
    /\ UNCHANGED <<encryptedKeys, origin, call, env, kv, req, gen, parked>>

\* what crypto.randomBytes(16) returns to the command that is running: either
\* IV in the first command when it is an upload, IvA afterwards
TurnIVs == IF cli.cmd = "upload" /\ cli.runs = 1 THEN IVs ELSE {IvA}

\* UploadTurn leaving the loop when a put fails
UploadTurn_StopOnFailure(iv, ok) ==
    /\ cli.pc = "uploading"
    /\ cli.idx <= Len(cli.apiKeys)
    /\ LET apiKey == cli.apiKeys[cli.idx]
           encryptedKey == encryptApiKey(apiKey, cli.encryptionKey, iv)
       IN IF encryptedKey.t = "throw"
          THEN cli' = [cli EXCEPT !.pc = "done", !.threw = TRUE, !.exit = 1] /\ kv' = kv
          ELSE /\ ok => Len(KvPut(kv, encryptedKey.v)) <= MaxStore
               /\ kv' = IF ok THEN KvPut(kv, encryptedKey.v) ELSE kv
               /\ cli' = [cli EXCEPT
                            !.attempts = Append(@, [apiKey |-> apiKey,
                                                    name |-> encryptedKey.v, ok |-> ok]),
                            !.persisted = IF ok
                                          THEN @ \cup {<<apiKey, cli.encryptionKey>>}
                                          ELSE @,
                            !.idx = IF ok THEN @ + 1 ELSE Len(cli.apiKeys) + 1]
    /\ UNCHANGED <<encryptedKeys, origin, call, env, req, gen, parked>>

\* one turn of the loop of uploadApiKeys: encryptApiKey, which nothing catches,
\* then wrangler kv:key put, whose failure is caught and logged.  iv is what
\* crypto.randomBytes(16) returned, ok whether the put succeeds; a put that
\* would take the namespace over MaxStore names fails.
UploadTurn(iv, ok) ==
    /\ cli.pc = "uploading"
    /\ cli.idx <= Len(cli.apiKeys)
    /\ LET apiKey == cli.apiKeys[cli.idx]
           encryptedKey == encryptApiKey(apiKey, cli.encryptionKey, iv)
       IN IF encryptedKey.t = "throw"
          THEN cli' = [cli EXCEPT !.pc = "done", !.threw = TRUE, !.exit = 1] /\ kv' = kv
          ELSE /\ ok => Len(KvPut(kv, encryptedKey.v)) <= MaxStore
               /\ kv' = IF ok THEN KvPut(kv, encryptedKey.v) ELSE kv
               /\ cli' = [cli EXCEPT
                            !.attempts = Append(@, [apiKey |-> apiKey,
                                                    name |-> encryptedKey.v, ok |-> ok]),
                            !.persisted = IF ok
                                          THEN @ \cup {<<apiKey, cli.encryptionKey>>}
                                          ELSE @,
                            !.idx = @ + 1]
    /\ UNCHANGED <<encryptedKeys, origin, call, env, req, gen, parked>>

\* what follows the loop: executeUploadCommand logs its success; rotateApiKeys
\* saves the new keys if an output file was named, and logs that the rotation
\* is complete and newKeysCount keys were generated and uploaded
UploadEnd ==
    /\ cli.pc = "uploading"
    /\ cli.idx > Len(cli.apiKeys)
    /\ cli' = IF cli.cmd = "rotate"
              THEN [cli EXCEPT !.pc = "done", !.exit = 0, !.said = SaidRotated,
                               !.reported = cli.newKeysCount, !.saved = cli.outputFile]
              ELSE [cli EXCEPT !.pc = "done", !.exit = 0, !.said = SaidUploaded,
                               !.reported = Len(cli.apiKeys)]
    /\ UNCHANGED <<encryptedKeys, origin, call, env, kv, req, gen, parked>>

(***************************************************************************)
(* Calls of the two encryptApiKey, the random source never repeating       *)
(***************************************************************************)
\* the Worker's encryptApiKey(apiKey, key) with crypto.getRandomValues filling
\* in iv
WorkerEncryptCall(apiKey, key, iv) ==
    /\ call.op = "none"
    /\ call' = [op |-> "workerEncrypt", apiKey |-> apiKey, key |-> key, iv |-> iv,
                idx |-> 0, visited |-> <<>>, keys |-> <<>>,
                result |-> WorkerEncryptApiKey(apiKey, key, iv)]
    /\ UNCHANGED <<encryptedKeys, origin, env, kv, req, gen, cli, parked>>

\* the Worker's decryptApiKey(encryptedKeys[i], key)
WorkerDecryptCall(i, key) ==
    /\ call.op = "none"
    /\ i \in 1..Len(encryptedKeys)
    /\ call' = [NoCall EXCEPT !.op = "workerDecrypt", !.key = key, !.idx = i,
                              !.result = WorkerDecryptApiKey(encryptedKeys[i], key)]
    /\ UNCHANGED <<encryptedKeys, origin, env, kv, req, gen, cli, parked>>

\* the IVs crypto.randomBytes(16) has returned to the calls made so far
DrawnIVs == {origin[i].iv : i \in 1..Len(origin)}

\* EncryptFresh with the IV drawn once, when the module is loaded
EncryptFresh_ModuleIV(apiKey, key, iv) ==
    /\ Len(encryptedKeys) < MaxKeys
    /\ iv \notin DrawnIVs
    /\ LET used == IF origin = <<>> THEN iv ELSE origin[1].iv
       IN /\ encryptedKeys' = Append(encryptedKeys, encryptApiKey(apiKey, key, used).v)
          /\ origin' = Append(origin, Enc(apiKey, key, iv))
    /\ UNCHANGED <<call, env, kv, req, gen, cli, parked>>

\* one more call encryptApiKey(apiKey, key) of a run of calls: the call draws
\* its IV from crypto.randomBytes(16), a source taken never to return the same
\* 16 bytes twice
EncryptFresh(apiKey, key, iv) ==
    /\ Len(encryptedKeys) < MaxKeys
    /\ iv \notin DrawnIVs
    /\ encryptedKeys' = Append(encryptedKeys, encryptApiKey(apiKey, key, iv).v)
    /\ origin' = Append(origin, Enc(apiKey, key, iv))
    /\ UNCHANGED <<call, env, kv, req, gen, cli, parked>>

\* what crypto.randomBytes(16) may return to a run of calls
FreshIVs == IVs \cup {[i \in 1..16 |-> (5 * i + 100) % 256]}

(***************************************************************************)
(* validateApiKey, one turn of its loop at a time                          *)
(***************************************************************************)
\* validateApiKey(apiKey, encryptedKeys, key) entering its for loop
ValidateStart(apiKey, key) ==
    /\ call.op = "none"
    /\ call' = [op |-> "scanning", apiKey |-> apiKey, key |-> key, iv |-> <<>>,
                idx |-> 1, visited |-> <<>>, keys |-> <<>>,
                result |-> JsNull]
    /\ UNCHANGED <<encryptedKeys, origin, env, kv, req, gen, cli, parked>>

\* ValidateTurn with a flag set in place of the return inside the loop
ValidateTurn_NoBreak ==
    /\ call.op = "scanning"
    /\ call' =
         IF call.idx > Len(encryptedKeys)
         THEN [call EXCEPT !.op = "scanned",
                           !.result = IF @ = JsNull THEN JsBool(FALSE) ELSE @]
         ELSE LET decrypted == decryptApiKey(encryptedKeys[call.idx], call.key)
                  c1 == [call EXCEPT !.visited = Append(@, call.idx), !.idx = @ + 1]
              IN IF StrictEqualsStr(decrypted, call.apiKey)
                 THEN [c1 EXCEPT !.result = JsBool(TRUE)]
                 ELSE c1
    /\ UNCHANGED <<encryptedKeys, origin, env, kv, req, gen, cli, parked>>

\* one turn of the for loop of validateApiKey, and the return after the loop
ValidateTurn ==
    /\ call.op = "scanning"
    /\ call' =
         IF call.idx > Len(encryptedKeys)
         THEN [call EXCEPT !.op = "scanned", !.result = JsBool(FALSE)]
         ELSE LET decrypted == decryptApiKey(encryptedKeys[call.idx], call.key)
                  c1 == [call EXCEPT !.visited = Append(@, call.idx)]
              IN IF StrictEqualsStr(decrypted, call.apiKey)
                 THEN [c1 EXCEPT !.op = "scanned", !.result = JsBool(TRUE)]
                 ELSE [c1 EXCEPT !.idx = @ + 1]
    /\ UNCHANGED <<encryptedKeys, origin, env, kv, req, gen, cli, parked>>

\* names a namespace and an encryptedKeys array hold: envelopes of the upload
\* tool under the Worker's key and under another key, and a name that is none
ScanNames ==
    {encryptApiKey(Token1, Key1Dashed, IvA).v, encryptApiKey(Token2, Key1Dashed, IvB).v,
     encryptApiKey(Token1, Key2Dashed, IvA).v, Tampered}

\* the arrays of at most n different names
ScanArrays(n) ==
    {a \in UNION {[1..k -> ScanNames] : k \in 0..n} :
        \A i, j \in 1..Len(a) : i # j => a[i] # a[j]}

ScanTokens == {Token1, Token2, TokenNever}
ScanKeys == {Key1Dashed, KeyShort}

(***************************************************************************)
(* validateApiKey on the same entries in another order, or with one twice   *)
(***************************************************************************)
\* the orders of n entries
Orders(n) == {p \in [1..n -> 1..n] : \A i, j \in 1..n : p[i] = p[j] => i = j}

Permuted(keys, p) == [i \in 1..Len(keys) |-> keys[p[i]]]

\* keys with entry i once more, at place pos
Duplicated(keys, i, pos) ==
    SubSeq(keys, 1, pos - 1) \o <<keys[i]>> \o SubSeq(keys, pos, Len(keys))

\* validateApiKey(apiKey, keys, key), keys being encryptedKeys in the order p
ValidatePermutedCall(apiKey, key, p) ==
    /\ call.op = "none"
    /\ Len(encryptedKeys) >= 1
    /\ p \in Orders(Len(encryptedKeys))
    /\ LET keys == Permuted(encryptedKeys, p)
       IN call' = [NoCall EXCEPT !.op = "validatePermuted", !.apiKey = apiKey, !.key = key,
                                 !.keys = keys, !.result = validateApiKey(apiKey, keys, key)]
    /\ UNCHANGED <<encryptedKeys, origin, env, kv, req, gen, cli, parked>>

\* validateApiKey(apiKey, keys, key), keys being encryptedKeys with entry i twice
ValidateDuplicatedCall(apiKey, key, i, pos) ==
    /\ call.op = "none"
    /\ i \in 1..Len(encryptedKeys)
    /\ pos \in 1..(Len(encryptedKeys) + 1)
    /\ LET keys == Duplicated(encryptedKeys, i, pos)
       IN call' = [NoCall EXCEPT !.op = "validateDuplicated", !.apiKey = apiKey, !.key = key,
                                 !.idx = i, !.keys = keys,
                                 !.result = validateApiKey(apiKey, keys, key)]
    /\ UNCHANGED <<encryptedKeys, origin, env, kv, req, gen, cli, parked>>

\* the arrays of at most n names, a name possibly more than once
OrderArrays(n) == UNION {[1..k -> ScanNames] : k \in 0..n}

OrderTokens == {Token1, Token2, TokenNever}
OrderKeys == {Key1Dashed, Key2Dashed, KeyShort}

(***************************************************************************)
(* Two requests in flight                                                  *)
(***************************************************************************)
\* the runtime leaves the handler of req where it is and runs the other one
Switch ==
    /\ req # parked
    /\ req' = parked
    /\ parked' = req
    /\ UNCHANGED <<env, kv, encryptedKeys, origin, call, gen, cli>>

\* the for loop of fetch over keyList.keys, from entry i on, run without
\* interruption
RECURSIVE WorkerScanFrom(_, _, _, _)
WorkerScanFrom(apiKey, keyList, encryptionKey, i) ==
    IF i > Len(keyList) THEN FALSE
    ELSE IF StrictEqualsStr(WorkerDecryptApiKey(keyList[i], encryptionKey), apiKey)
         THEN TRUE
    ELSE WorkerScanFrom(apiKey, keyList, encryptionKey, i + 1)

Response(status, body, forwarded, threw) ==
    [status |-> status, body |-> body, forwarded |-> forwarded, threw |-> threw]

\* what fetch answers when it runs alone and list() returns keyList
FetchAlone(path, header, e, keyList) ==
    IF ~NeedsValidation(path, e) THEN Response(0, "", TRUE, FALSE)
    ELSE IF Falsy(header) THEN Response(403, RespMissingApiKey, FALSE, FALSE)
    ELSE IF Falsy(e.ENCRYPTION_KEY) THEN Response(500, RespMissingKey, FALSE, FALSE)
    ELSE IF WorkerEncryptApiKey(header.v, e.ENCRYPTION_KEY.v, IvA).t = "throw"
         THEN Response(0, "", FALSE, TRUE)
    ELSE IF WorkerScanFrom(header.v, keyList, e.ENCRYPTION_KEY.v, 1)
         THEN Response(0, "", TRUE, FALSE)
    ELSE Response(403, RespInvalidApiKey, FALSE, FALSE)

ResponseOf(r) == Response(r.status, r.body, r.forwarded, r.threw)

ConcurrentPaths ==
    {<<"/","s","o","m","e","/","p","a","t","h">>,
     <<"/","m","e","d","i","a","/","p","r","o","t","e","c","t","e","d","/","f","i","l","e",".","j","p","g">>}
ConcurrentHeaders == {JsNull, JsStr(Token1), JsStr(TokenNever)}

(***************************************************************************)
(* Specifications                                                          *)
(***************************************************************************)
\* the Worker serving requests while the upload tool fills the namespace
Init ==
    /\ InitWorker
    /\ encryptedKeys = <<>> /\ origin = <<>> /\ call = NoCall
    /\ gen = NoGen /\ cli = CliIdle /\ parked = Idle

Next ==
    \/ \E path \in Paths, header \in Headers : FetchStart(path, header)
    \/ \E iv \in IVs : FetchEncrypt(iv)
    \/ FetchList
    \/ FetchScan
    \/ \E apiKey \in UploadTokens, key \in UploadKeys, ok \in BOOLEAN :
          UploadKey(apiKey, key, IvA, ok)
    \/ \E name \in StoreForeignNames : PutForeignName(name)

Spec == Init /\ [][Next]_vars

\* validateApiKey and decryptApiKey called once on an array built up of
\* envelopes and other strings
InitCalls ==
    /\ InitUtil
    /\ env = [ENCRYPTION_KEY |-> JsUndefined, PROTECTED_PATH_PREFIX |-> ProtectedPathPrefix,
              EXCLUDED_PATHS |-> ExcludedPaths]
    /\ kv = <<>> /\ req = Idle
    /\ gen = NoGen /\ cli = CliIdle /\ parked = Idle

NextCalls ==
    \/ \E o \in Origins : PushEncrypted(o)
    \/ \E name \in ForeignNames : PushForeign(name)
    \/ \E i \in 1..MaxKeys, key \in EncryptionKeys : DecryptCall(i, key)
    \/ \E i \in 1..MaxKeys, key \in EncryptionKeys : WorkerDecryptCall(i, key)
    \/ \E apiKey \in Tokens, key \in EncryptionKeys : ValidateCall(apiKey, key)

SpecUtil == InitCalls /\ [][NextCalls]_vars

\* the codecs of test-utils.js, each called once on drawn tokens and keys
NextCodec ==
    \/ \E apiKey \in Tokens, key \in EncryptionKeys, iv \in IVs :
          EncryptCall(apiKey, key, iv)
    \/ \E apiKey \in Tokens, key \in EncryptionKeys, iv \in IVs :
          WorkerEncryptCall(apiKey, key, iv)
    \/ \E key \in RawKeys : IsValidCall(key)
    \/ \E formatted \in BOOLEAN, bytes \in RandomKeyBytes :
          GenerateKeyCall(formatted, bytes)

SpecCodec == InitCalls /\ [][NextCodec]_vars

\* the generators, each called once on drawn options
NextGen ==
    \/ \E prefix \in GenPrefixes, length \in GenLengths, useSpecialChars \in BOOLEAN,
          formatted \in BOOLEAN, seed \in RandomSeeds :
          GenerateApiKeyCall(prefix, length, useSpecialChars, formatted, seed)
    \/ \E count \in 0..MaxCount :
          \E prefix \in {JsUndefined, JsStr(<<>>), JsStr(PrefixTest), JsStr(PrefixMediaApi)},
             length \in {3, 16}, useSpecialChars \in BOOLEAN, formatted \in BOOLEAN,
             seeds \in [1..count -> RandomSeeds] :
             GenerateApiKeysCall(count, prefix, length, useSpecialChars, formatted, seeds)
    \/ \E count \in 0..MaxCount :
          \E prefixArg \in {JsUndefined, JsStr(PrefixMediaApi)}, length \in {16},
             useSpecialChars \in BOOLEAN, seeds \in [1..count -> RandomSeeds] :
             ExecuteGenerateCommand(count, prefixArg, length, useSpecialChars, seeds)

SpecGen == InitCalls /\ [][NextGen]_vars

\* the upload and rotate commands, run one after another on one namespace
InitCli ==
    /\ InitUtil
    /\ env = [ENCRYPTION_KEY |-> JsUndefined, PROTECTED_PATH_PREFIX |-> ProtectedPathPrefix,
              EXCLUDED_PATHS |-> ExcludedPaths]
    /\ kv = <<>> /\ req = Idle
    /\ gen = NoGen /\ cli = CliIdle /\ parked = Idle

NextCli ==
    \/ \E args \in UploadArgs, file \in KeyFiles, keyBytes \in GeneratedKeyBytes,
          secretOk \in BOOLEAN :
          ExecuteUploadCommand(args, file, keyBytes, secretOk)
    \/ \E count \in 0..MaxCount :
          \E namespace \in RotateNamespaces, encryptionKey \in RotateKeys,
             outputFile \in BOOLEAN, seeds \in [1..count -> RotateSeeds] :
             ExecuteRotateCommand(namespace, encryptionKey, count, outputFile, seeds)
    \/ \E iv \in TurnIVs, ok \in BOOLEAN : UploadTurn(iv, ok)
    \/ UploadEnd

SpecCli == InitCli /\ [][NextCli]_vars


\* encryptApiKey called again and again
NextFresh ==
    \E apiKey \in Tokens, key \in ValidKeys, iv \in FreshIVs : EncryptFresh(apiKey, key, iv)

SpecFresh == InitCalls /\ [][NextFresh]_vars

\* validateApiKey called on an array, and the Worker serving requests from a
\* namespace that holds the same names; a loop that has begun is run on
InitScan ==
    /\ \E a \in ScanArrays(MaxKeys) :
          /\ encryptedKeys = a
          /\ origin = [i \in 1..Len(a) |-> Foreign(a[i])]
          /\ kv = a
    /\ call = NoCall
    /\ env = [ENCRYPTION_KEY |-> JsStr(Key1Dashed), PROTECTED_PATH_PREFIX |-> ProtectedPathPrefix,
              EXCLUDED_PATHS |-> ExcludedPaths]
    /\ req = Idle
    /\ gen = NoGen /\ cli = CliIdle /\ parked = Idle

NextScan ==
    \/ \E apiKey \in ScanTokens, key \in ScanKeys : ValidateStart(apiKey, key)
    \/ ValidateTurn
    \/ \E path \in Paths, header \in {JsStr(t) : t \in ScanTokens} : FetchStart(path, header)
    \/ \E iv \in {IvA} : FetchEncrypt(iv)
    \/ FetchList
    \/ FetchScan

\* The loop of validateApiKey is synchronous code and the runtime resumes a
\* handler whose await has settled: weak fairness of ValidateTurn, and of
\* FetchEncrypt, FetchList and FetchScan.  ValidateTurn is enabled exactly when
\* call.op = "scanning" and is then the only action that changes call; the
\* three continuations are enabled exactly when req.pc is one of "encrypt",
\* "list", "scan" and are then the only actions that change req.  The fairness
\* conditions are written with these state predicates.
ValidateRunsOn ==
    []<>(call.op # "scanning") \/ []<><<call.op = "scanning">>_call

InHandler == req.pc \in {"encrypt", "list", "scan"}

HandlerRunsOn ==
    []<>(~InHandler) \/ []<><<InHandler>>_req

SpecScanSafe == InitScan /\ [][NextScan]_vars

SpecScan == SpecScanSafe /\ ValidateRunsOn /\ HandlerRunsOn

\* validateApiKey called on the entries of an array rearranged
InitOrder ==
    /\ encryptedKeys \in OrderArrays(MaxKeys)
    /\ origin = [i \in 1..Len(encryptedKeys) |-> Foreign(encryptedKeys[i])]
    /\ call = NoCall
    /\ env = [ENCRYPTION_KEY |-> JsUndefined, PROTECTED_PATH_PREFIX |-> ProtectedPathPrefix,
              EXCLUDED_PATHS |-> ExcludedPaths]
    /\ kv = <<>> /\ req = Idle
    /\ gen = NoGen /\ cli = CliIdle /\ parked = Idle

NextOrder ==
    \/ \E apiKey \in OrderTokens, key \in OrderKeys, p \in UNION {Orders(n) : n \in 1..MaxKeys} :
          ValidatePermutedCall(apiKey, key, p)
    \/ \E apiKey \in OrderTokens, key \in OrderKeys, i \in 1..MaxKeys, pos \in 1..(MaxKeys + 1) :
          ValidateDuplicatedCall(apiKey, key, i, pos)

SpecOrder == InitOrder /\ [][NextOrder]_vars

\* two requests served at once while the upload tool appends to the namespace
InitConcurrent ==
    /\ InitUtil
    /\ env \in [ENCRYPTION_KEY : {JsStr(Key1Dashed), JsStr(KeyShort)},
                PROTECTED_PATH_PREFIX : {ProtectedPathPrefix},
                EXCLUDED_PATHS : {ExcludedPaths}]
    /\ kv = <<>> /\ req = Idle
    /\ gen = NoGen /\ cli = CliIdle /\ parked = Idle

NextConcurrent ==
    \/ \E path \in ConcurrentPaths, header \in ConcurrentHeaders : FetchStart(path, header)
    \/ \E iv \in {IvA} : FetchEncrypt(iv)
    \/ FetchList
    \/ FetchScan
    \/ Switch
    \/ \E apiKey \in UploadTokens, key \in {Key1Dashed}, ok \in BOOLEAN :
          UploadKey(apiKey, key, IvA, ok)

SpecConcurrent == InitConcurrent /\ [][NextConcurrent]_vars

(***************************************************************************)
(* Properties of the utilities                                             *)
(***************************************************************************)
\* the 32 bytes a valid key string stands for
KeyBytesOf(k) == NodeHexDecode(SelectSeq(k, LAMBDA c : c # "-"))

\* C2: validateApiKey(T, S, K) returns true whenever S holds encryptApiKey(T, K),
\* whatever else S holds before or after it: other tokens, other keys, strings
\* that are no envelope.
C2_ValidateAcceptsStored ==
    (/\ call.op = "validate"
     /\ \E i \in 1..Len(origin) :
           origin[i] = Enc(call.apiKey, call.key, origin[i].iv))
    => call.result = JsBool(TRUE)

\* the envelope of the token is the last of the array, after a string that is
\* no envelope or an envelope under another key
C2_Witness ==
    /\ call.op = "validate"
    /\ Len(origin) >= 2
    /\ origin[Len(origin)] = Enc(call.apiKey, call.key, origin[Len(origin)].iv)
    /\ \/ origin[1].kind = "foreign"
       \/ KeyBytesOf(origin[1].key) # KeyBytesOf(call.key)
    /\ call.result = JsBool(TRUE)

\* C3: validateApiKey(T, S, K) returns false when no member of S decrypts to T
\* under K, and so for the empty S.
C3_ValidateRejectsUnstored ==
    (/\ call.op = "validate"
     /\ \A i \in 1..Len(encryptedKeys) :
           LET d == decryptApiKey(encryptedKeys[i], call.key)
           IN ~(d.t = "string" /\ d.v = call.apiKey))
    => call.result = JsBool(FALSE)

\* a token that was never encrypted, against envelopes of other tokens under
\* the key of the call
C3_Witness ==
    /\ call.op = "validate"
    /\ call.apiKey = TokenNever
    /\ Len(origin) >= 1
    /\ \A i \in 1..Len(origin) :
          origin[i].kind = "enc" /\ KeyBytesOf(origin[i].key) = KeyBytesOf(call.key)
    /\ call.result = JsBool(FALSE)

\* C4: decryptApiKey(encryptApiKey(T, K), K) is T, for K with or without dashes.
C4_RoundTrip ==
    (/\ call.op = "decrypt"
     /\ origin[call.idx].kind = "enc"
     /\ origin[call.idx].key = call.key)
    => call.result = JsStr(origin[call.idx].apiKey)

\* a token with a two-byte character, under a key written with dashes
C4_Witness ==
    /\ call.op = "decrypt"
    /\ origin[call.idx] = Enc(TokenAccent, Key2Dashed, IvB)
    /\ call.key = Key2Dashed
    /\ call.result = JsStr(TokenAccent)

\* C5: decryptApiKey(encryptApiKey(T, K1), K2) is null for valid keys K1, K2
\* standing for different bytes, and validateApiKey(T, S, K2) is false when every
\* envelope of T in S was made under such a K1.
C5_WrongKeyRejected ==
    /\ (/\ call.op = "decrypt"
        /\ origin[call.idx].kind = "enc"
        /\ call.key \in ValidKeys
        /\ KeyBytesOf(origin[call.idx].key) # KeyBytesOf(call.key))
       => call.result = JsNull
    /\ (/\ call.op = "validate"
        /\ call.key \in ValidKeys
        /\ \A i \in 1..Len(origin) :
              origin[i].kind = "enc" /\ origin[i].apiKey = call.apiKey
                 => KeyBytesOf(origin[i].key) # KeyBytesOf(call.key))
       => call.result = JsBool(FALSE)

\* an envelope made under Key2 is decrypted under Key1
C5_Witness ==
    /\ call.op = "decrypt"
    /\ origin[call.idx] = Enc(Token1, Key2Dashed, IvA)
    /\ call.key = Key1
    /\ call.result = JsNull

\* the entries of keys whose decryption under key does not fail
WithoutFailing(keys, key) ==
    SelectSeq(keys, LAMBDA e : decryptApiKey(e, key) # JsNull)

\* C6: an entry whose decryption fails is a non-match and does not end the
\* scan: validateApiKey returns a boolean, the one it returns for the array
\* without the failing entries.
C6_FailingEntriesIgnored ==
    call.op = "validate"
    => /\ call.result.t = "boolean"
       /\ call.result = validateApiKey(call.apiKey,
                                       WithoutFailing(encryptedKeys, call.key), call.key)

\* the token is found behind a string that is no envelope
C6_Witness ==
    /\ call.op = "validate"
    /\ Len(origin) >= 2
    /\ origin[1].kind = "foreign"
    /\ decryptApiKey(encryptedKeys[1], call.key) = JsNull
    /\ call.result = JsBool(TRUE)

\* C7: validateApiKey called with a key that is no valid encryption key ends
\* with an error, not with the boolean of a non-match.
C7_InvalidKeyIsAnError ==
    (call.op = "validate" /\ ~isValidEncryptionKey(call.key))
    => call.result.t # "boolean"

\* the hex digits, both cases
C10_HexChars == {"0","1","2","3","4","5","6","7","8","9",
                 "a","b","c","d","e","f","A","B","C","D","E","F"}

C10_Is64Hex(raw) ==
    LET r == SelectSeq(raw, LAMBDA c : c # "-")
    IN Len(r) = 64 /\ \A i \in 1..Len(r) : r[i] \in C10_HexChars

\* C10: isValidEncryptionKey(raw) is true exactly when raw without its dashes is
\* 64 hex digits of either case, and every key generateEncryptionKey returns,
\* formatted or not, is valid and is such a string.
C10_IsValidIffHex64 ==
    /\ call.op = "isValid" => (call.result = JsBool(C10_Is64Hex(call.key)))
    /\ call.op = "generateKey" => (call.result = JsBool(TRUE) /\ C10_Is64Hex(call.key))

\* an upper-case key is valid
C10_Witness ==
    /\ call.op = "isValid"
    /\ call.key = Key1Upper
    /\ call.result = JsBool(TRUE)

(***************************************************************************)
(* Properties of the Worker                                                *)
(***************************************************************************)
\* the request has been answered, and its path was one that needs an API key
AnsweredProtected ==
    /\ req.pc = "done"
    /\ StartsWith(req.path, ProtectedPathPrefix)
    /\ \A i \in 1..Len(ExcludedPaths) : ~StartsWith(req.path, ExcludedPaths[i])

\* the x-api-key header equals the plaintext, under ENCRYPTION_KEY, of a name
\* that list() returned
HeaderMatchesListed ==
    /\ req.header.t = "string"
    /\ \E i \in 1..Len(req.keyList) :
          LET d == WorkerDecryptApiKey(req.keyList[i], env.ENCRYPTION_KEY.v)
          IN d.t = "string" /\ d.v = req.header.v

TokenAndKeyPresent ==
    /\ req.header.t = "string" /\ req.header.v # <<>>
    /\ env.ENCRYPTION_KEY.t = "string" /\ env.ENCRYPTION_KEY.v # <<>>

Denied ==
    req.status = 403 /\ req.body = RespInvalidApiKey /\ ~req.forwarded /\ ~req.threw

\* the key, its dashes removed, pairs up into 16, 24 or 32 bytes
ImportableKey ==
    (Len(SelectSeq(env.ENCRYPTION_KEY.v, LAMBDA c : c # "-")) + 1) \div 2 \in {16, 24, 32}

C8_MissingTokenOrKey ==
    AnsweredProtected
    => /\ req.header.t = "null"
          => (/\ req.status = 403 /\ req.body = RespMissingApiKey
              /\ ~req.listed /\ ~req.forwarded /\ req.decrypts = 0)
       /\ (req.header.t = "string" /\ req.header.v # <<>>
             /\ env.ENCRYPTION_KEY.t = "undefined")
          => (/\ req.status = 500 /\ req.body = RespMissingKey
              /\ ~req.listed /\ ~req.forwarded /\ req.decrypts = 0)

\* a request with a token, the key not being set, while the namespace holds names
C8_Witness ==
    /\ AnsweredProtected
    /\ req.header = JsStr(Token1)
    /\ env.ENCRYPTION_KEY.t = "undefined"
    /\ Len(kv) > 0
    /\ req.status = 500

\* C9: a request whose path is not under the protected prefix, or is under an
\* excluded prefix, is forwarded at once: neither the header, nor the
\* encryption key, nor the namespace is read.
C9_UnprotectedForwarded ==
    (/\ req.pc # "idle"
     /\ \/ ~StartsWith(req.path, ProtectedPathPrefix)
        \/ \E i \in 1..Len(ExcludedPaths) : StartsWith(req.path, ExcludedPaths[i]))
    => /\ req.pc = "done" /\ req.forwarded /\ ~req.threw /\ req.status = 0
       /\ ~req.readHeader /\ ~req.readKey /\ ~req.listed /\ req.decrypts = 0

\* a request for an excluded path, without a token, the key not being set
C9_Witness ==
    /\ req.pc = "done"
    /\ StartsWith(req.path, ExcludedPaths[1])
    /\ req.header.t = "null"
    /\ env.ENCRYPTION_KEY.t = "undefined"
    /\ req.forwarded

(***************************************************************************)
(* Properties of the generators                                            *)
(***************************************************************************)
\* the random part of key k of the call: the first length characters of the
\* hex or base64 writing of the bytes drawn for it
GenRaw(k) ==
    Slice(IF gen.useSpecialChars THEN Base64Encode(gen.bytes[k]) ELSE ToHex(gen.bytes[k]),
          0, gen.length)

\* a key of the call without the separators formatting put in: every 9th
\* character of a key of 8 characters or more, when formatted was asked
Unformatted(token) ==
    IF gen.formatted /\ Len(token) >= 8
    THEN LET keep == {i \in 1..Len(token) : i % 9 # 0}
             nth(j) == CHOOSE i \in keep : Cardinality({h \in keep : h < i}) = j - 1
         IN [j \in 1..Cardinality(keep) |-> token[nth(j)]]
    ELSE token

HasDash(token) == \E i \in 1..Len(token) : token[i] = "-"

\* C11: a key generated with prefix P starts with P, formatted or not, and a
\* formatted key whose prefixed form is longer than 8 characters holds a
\* separator.
C11_PrefixKept ==
    gen.op = "generateApiKey"
    => /\ StartsWith(gen.result[1], gen.prefix.v)
       /\ (gen.formatted /\ Len(gen.prefix.v) + Len(GenRaw(1)) > 8)
             => HasDash(gen.result[1])

\* the prefix the claim gives key i, and the prefix with the index always in it
C12_PrefixAsClaimed(i) ==
    IF gen.prefix.t = "string" /\ gen.prefix.v # <<>>
    THEN gen.prefix.v
    ELSE <<"k","e","y">> \o ToDecimal(i) \o <<"-">>

C12_PrefixIndexed(i) ==
    (IF gen.prefix.t = "string" /\ gen.prefix.v # <<>> THEN gen.prefix.v ELSE <<"k","e","y">>)
    \o ToDecimal(i) \o <<"-">>

\* C12 as claimed: generateApiKeys returns count keys; without a prefix key i
\* is key{i}- and its random part, with a prefix P it is P and its random part.
C12_CountAndPrefixAsGiven ==
    gen.op \in {"generateApiKeys", "generateCommand"}
    => /\ Len(gen.result) = gen.count
       /\ \A k \in 1..Len(gen.result) :
             Unformatted(gen.result[k]) = C12_PrefixAsClaimed(k - 1) \o GenRaw(k)

\* C12 as amended: generateApiKeys returns count keys; without a prefix key i
\* is key{i}- and its random part, with a prefix P it is P, then i and a dash,
\* and its random part.
C12_CountAndPositionalPrefix ==
    gen.op \in {"generateApiKeys", "generateCommand"}
    => /\ Len(gen.result) = gen.count
       /\ \A k \in 1..Len(gen.result) :
             Unformatted(gen.result[k]) = C12_PrefixIndexed(k - 1) \o GenRaw(k)

\* two keys asked with a prefix: the second carries the prefix and its index
C12_Witness ==
    /\ gen.op = "generateApiKeys"
    /\ gen.count = 2
    /\ gen.prefix = JsStr(PrefixTest)
    /\ ~gen.formatted
    /\ StartsWith(gen.result[2], PrefixTest \o <<"1", "-">>)

\* C13: a formatted key of 8 characters or more is the prefixed key with a dash
\* after every 8th character and none at its end, so that taking the dashes
\* put in away gives the prefixed key; an unformatted key is the prefixed key,
\* and holds no dash when the prefix is empty.
C13_FormatInsertsSeparators ==
    gen.op = "generateApiKey"
    => LET prefixed == gen.prefix.v \o GenRaw(1)
           out == gen.result[1]
       IN /\ (gen.formatted /\ Len(prefixed) >= 8)
             => /\ Len(out) = Len(prefixed) + ((Len(prefixed) - 1) \div 8)
                /\ \A i \in 1..Len(out) : i % 9 = 0 => out[i] = "-"
                /\ Len(out) % 9 # 0
                /\ Unformatted(out) = prefixed
          /\ ~gen.formatted
             => /\ out = prefixed
                /\ gen.prefix.v = <<>> => ~HasDash(out)

\* a prefixed key of 21 characters, formatted into three groups
C13_Witness ==
    /\ gen.op = "generateApiKey"
    /\ gen.formatted
    /\ gen.prefix = JsStr(PrefixTest)
    /\ gen.length = 16
    /\ Len(gen.result[1]) = 23
    /\ gen.result[1][9] = "-" /\ gen.result[1][18] = "-"

(***************************************************************************)
(* Properties of the upload and rotate commands                            *)
(***************************************************************************)
\* the loop of uploadApiKeys has been entered and nothing was thrown
InUploadLoop == cli.pc \in {"uploading", "done"} /\ cli.idx >= 1 /\ ~cli.threw

\* the Worker, holding key, would accept token against the names of store
Validates(token, store, key) ==
    /\ token # <<>>
    /\ \E i \in 1..Len(store) :
          StrictEqualsStr(WorkerDecryptApiKey(store[i], key), token)

AllPutsOk == \A j \in 1..Len(cli.attempts) : cli.attempts[j].ok

\* C14: uploadApiKeys makes one put per API key, in the order of the list: at
\* every moment the puts made are those of the keys before the current one,
\* whichever of them failed, and the loop ends with one put for every key.
C14_OneAttemptPerToken ==
    InUploadLoop
    => /\ Len(cli.attempts) = cli.idx - 1
       /\ \A j \in 1..Len(cli.attempts) : cli.attempts[j].apiKey = cli.apiKeys[j]
       /\ cli.pc = "done" => Len(cli.attempts) = Len(cli.apiKeys)

\* the first put of two failed, the second was made and succeeded
C14_Witness ==
    /\ InUploadLoop
    /\ cli.pc = "done"
    /\ Len(cli.apiKeys) = 2
    /\ Len(cli.attempts) = 2
    /\ ~cli.attempts[1].ok
    /\ cli.attempts[2].ok

\* C15: rotation reports completion only if every put succeeded; it does not
\* report that all newKeysCount keys were uploaded when a put failed.
C15_ReportReflectsPersists ==
    (cli.cmd = "rotate" /\ cli.pc = "done" /\ cli.said = SaidRotated)
    => AllPutsOk

\* C16: while and after an upload or a rotation the namespace begins with the
\* names it held before, unchanged and in place; every API key ever put with
\* success still validates under its encryption key, and so does every API key
\* of this command whose put succeeded.
C16_AppendOnly ==
    InUploadLoop
    => /\ Len(kv) >= Len(cli.kvBefore)
       /\ SubSeq(kv, 1, Len(cli.kvBefore)) = cli.kvBefore
       /\ \A p \in cli.persisted : Validates(p[1], kv, p[2])
       /\ \A j \in 1..Len(cli.attempts) :
             cli.attempts[j].ok
                => Validates(cli.attempts[j].apiKey, kv, cli.encryptionKey)

\* a rotation has added a name to a namespace that held names before
C16_Witness ==
    /\ InUploadLoop
    /\ cli.cmd = "rotate"
    /\ cli.pc = "done"
    /\ Len(cli.kvBefore) >= 1
    /\ Len(kv) > Len(cli.kvBefore)
    /\ AllPutsOk

\* C17: after an upload, all of whose puts succeeded, of a key file that omits
\* an API key put before under the same encryption key, given on the command
\* line, that API key no longer validates.
C17_OmittedKeyRevoked ==
    (cli.cmd = "upload" /\ cli.pc = "done" /\ cli.exit = 0 /\ AllPutsOk
       /\ ~cli.generatedKey)
    => \A p \in cli.persisted :
          (/\ p[2] = cli.encryptionKey
           /\ \A j \in 1..Len(cli.apiKeys) : cli.apiKeys[j] # p[1])
          => ~Validates(p[1], kv, cli.encryptionKey)

\* C18: upload <file> <namespace> --set-secret generates an encryption key and
\* does not end on an invalid encryption key.
C18_SetSecretWithoutKey ==
    (cli.cmd = "upload" /\ cli.pc = "done"
       /\ cli.args = <<ArgFile, ArgNamespace, ArgSetSecret>>)
    => cli.generatedKey /\ cli.said # SaidInvalidKey

(***************************************************************************)
(* Properties of the envelopes                                             *)
(***************************************************************************)
C19_LowerHex(e) == \A i \in 1..Len(e) : \E j \in 1..16 : HexDigits[j] = e[i]

\* C19: the envelope either encryptApiKey returns under a valid key is, in
\* lowercase hex, the 16 bytes of the IV, then the 16 bytes of the tag, then the
\* ciphertext, 64 + 2 x (bytes of the plaintext) characters in all.
C19_EnvelopeLayout ==
    (call.op \in {"encrypt", "workerEncrypt"} /\ call.key \in ValidKeys)
    => LET e == call.result.v
           keyBytes == KeyBytesOf(call.key)
           plain == Utf8Encode(call.apiKey)
           ct == GcmEncryptBytes(keyBytes, call.iv, plain)
       IN /\ call.result.t = "string"
          /\ Len(e) = 64 + 2 * Len(plain)
          /\ C19_LowerHex(e)
          /\ Slice(e, 0, 32) = ToHex(call.iv)
          /\ Slice(e, 32, 64) = ToHex(GcmTag(keyBytes, call.iv, ct))
          /\ Slice(e, 64, Len(e)) = ToHex(ct)

VisitedInOrder(visited, keys) ==
    /\ Len(visited) <= Len(keys)
    /\ \A j \in 1..Len(visited) : visited[j] = j

UtilityMatch(i) == StrictEqualsStr(decryptApiKey(encryptedKeys[i], call.key), call.apiKey)
WorkerMatch(i) ==
    StrictEqualsStr(WorkerDecryptApiKey(req.keyList[i], env.ENCRYPTION_KEY.v), req.apiKey.v)

\* validateApiKey: in order and once; true at the first match and nothing
\* decrypted after it; false only after every entry was decrypted
C21_UtilityScan ==
    call.op \in {"scanning", "scanned"}
    => /\ VisitedInOrder(call.visited, encryptedKeys)
       /\ call.op = "scanning"
            => /\ call.idx = Len(call.visited) + 1
               /\ \A j \in 1..Len(call.visited) : ~UtilityMatch(j)
       /\ (call.op = "scanned" /\ call.result = JsBool(TRUE))
            => /\ Len(call.visited) >= 1
               /\ UtilityMatch(Len(call.visited))
               /\ \A j \in 1..(Len(call.visited) - 1) : ~UtilityMatch(j)
       /\ (call.op = "scanned" /\ call.result # JsBool(TRUE))
            => /\ call.result = JsBool(FALSE)
               /\ Len(call.visited) = Len(encryptedKeys)
               /\ \A j \in 1..Len(encryptedKeys) : ~UtilityMatch(j)
       /\ call.op = "scanned"
            => call.result = validateApiKey(call.apiKey, encryptedKeys, call.key)

\* the Worker's loop over keyList.keys: the same
C21_WorkerScan ==
    (req.listed /\ ~req.threw)
    => /\ VisitedInOrder(req.visited, req.keyList)
       /\ req.decrypts = Len(req.visited)
       /\ req.pc = "scan"
            => /\ req.idx = Len(req.visited) + 1
               /\ \A j \in 1..Len(req.visited) : ~WorkerMatch(j)
       /\ (req.pc = "done" /\ req.forwarded)
            => /\ Len(req.visited) >= 1
               /\ WorkerMatch(Len(req.visited))
               /\ \A j \in 1..(Len(req.visited) - 1) : ~WorkerMatch(j)
       /\ (req.pc = "done" /\ ~req.forwarded)
            => /\ req.status = 403 /\ req.body = RespInvalidApiKey
               /\ Len(req.visited) = Len(req.keyList)
               /\ \A j \in 1..Len(req.keyList) : ~WorkerMatch(j)

\* C21: a scan decrypts the entries in the order supplied and each at most
\* once; it returns true at the first match and decrypts nothing after it; it
\* returns false only when every entry was decrypted once; and a scan that
\* has begun ends.
C21_ScanInOrderOnceAndEnds ==
    /\ [](C21_UtilityScan /\ C21_WorkerScan)
    /\ (call.op = "scanning") ~> (call.op = "scanned")
    /\ (req.pc = "scan") ~> (req.pc = "done")

\* validateApiKey returned true at the first of two entries, the second one
\* never decrypted, and the Worker denied a request after decrypting both
C21_Witness ==
    /\ call.op = "scanned"
    /\ Len(encryptedKeys) = 2
    /\ call.result = JsBool(TRUE)
    /\ call.visited = <<1>>
    /\ req.pc = "done" /\ req.listed
    /\ req.status = 403
    /\ req.visited = <<1, 2>>

(***************************************************************************)
(* Properties of validateApiKey on rearranged arrays                       *)
(***************************************************************************)
Entries(keys) == {keys[i] : i \in 1..Len(keys)}

\* C22: validateApiKey gives the same answer on the entries of an array in any
\* order, and with any entry twice, as on the array.
C22_OrderAndMultiplicity ==
    call.op \in {"validatePermuted", "validateDuplicated"}
    => /\ Entries(call.keys) = Entries(encryptedKeys)
       /\ call.op = "validatePermuted" => Len(call.keys) = Len(encryptedKeys)
       /\ call.op = "validateDuplicated" => Len(call.keys) = Len(encryptedKeys) + 1
       /\ call.result.t = "boolean"
       /\ call.result = validateApiKey(call.apiKey, encryptedKeys, call.key)

\* two different entries in the other order, the match now first where it
\* was last
C22_Witness ==
    /\ call.op = "validatePermuted"
    /\ Len(encryptedKeys) = 2
    /\ call.keys # encryptedKeys
    /\ call.result = JsBool(TRUE)
    /\ StrictEqualsStr(decryptApiKey(call.keys[1], call.key), call.apiKey)
    /\ ~StrictEqualsStr(decryptApiKey(encryptedKeys[1], call.key), call.apiKey)

(***************************************************************************)
(* Properties of requests in flight together                               *)
(***************************************************************************)
AnsweredAsAlone(r) ==
    r.pc = "done" => ResponseOf(r) = FetchAlone(r.path, r.header, env, r.keyList)

\* a step is a step of one handler, or an append, or the switch: a handler's
\* step leaves the other handler's record as it is, an append leaves both, and
\* a handler that scans keeps the list it was given.
OneHandlerPerStep ==
    /\ parked' = parked \/ (parked' = req /\ req' = parked)
    /\ kv' # kv => (req' = req /\ parked' = parked)
    /\ (req.pc = "scan" /\ req' # parked) => req'.keyList = req.keyList

\* C23: with two requests in flight and names being appended, every answer is
\* the answer the handler gives running alone on the list its own list()
\* returned, and no step of one handler changes the other's state.
C23_ConcurrentAsAlone ==
    /\ [](AnsweredAsAlone(req) /\ AnsweredAsAlone(parked))
    /\ [][OneHandlerPerStep]_vars

\* two requests with the same API key in flight together, a name put between
\* their list() calls: one is forwarded while the other, still scanning the
\* empty list it was given, will be denied
C23_Witness ==
    /\ req.pc = "done" /\ req.forwarded /\ req.listed
    /\ parked.pc = "scan" /\ parked.listed
    /\ parked.header = req.header
    /\ parked.keyList = <<>>
    /\ Len(req.keyList) >= 1

(***************************************************************************)
(* Properties of a command given an invalid key                            *)
(***************************************************************************)
\* the encryption key the command was given: the third argument of upload, the
\* --encryption-key option of rotate
GivenKey ==
    IF cli.cmd = "upload" THEN (IF Len(cli.args) >= 3 THEN cli.args[3] ELSE <<>>)
    ELSE IF cli.cmd = "rotate" THEN cli.args[2]
    ELSE <<>>

BodyAlphabet ==
    IF gen.useSpecialChars THEN {Base64Chars[i] : i \in 1..64}
    ELSE {HexDigits[i] : i \in 1..16}

\* the characters buffer.toString gives for the bytes drawn, padding left out
EncodedChars ==
    LET e == IF gen.useSpecialChars THEN Base64Encode(gen.bytes[1]) ELSE ToHex(gen.bytes[1])
    IN Cardinality({i \in 1..Len(e) : e[i] # "="})

\* C25: generateApiKey draws ceil(0.75 x length) bytes, which encode to at
\* least length characters of the alphabet; the key, separators taken out, is
\* the prefix followed by exactly length characters of the alphabet, none of
\* them the padding character.
C25_BodyHasLength ==
    gen.op = "generateApiKey"
    => LET token == Unformatted(gen.result[1])
           p == Len(gen.prefix.v)
       IN /\ 4 * Len(gen.bytes[1]) >= 3 * gen.length
          /\ 4 * Len(gen.bytes[1]) < 3 * gen.length + 4
          /\ EncodedChars >= gen.length
          /\ Len(token) = p + gen.length
          /\ \A i \in (p + 1)..Len(token) : token[i] \in BodyAlphabet
          /\ ~gen.formatted => Len(gen.result[1]) = p + gen.length

\* five base64 characters asked: four bytes drawn, whose base64 writing ends
\* in padding that the key does not hold
C25_Witness ==
    /\ gen.op = "generateApiKey"
    /\ gen.useSpecialChars /\ ~gen.formatted
    /\ gen.length = 5
    /\ Len(gen.bytes[1]) = 4
    /\ Base64Encode(gen.bytes[1])[8] = "="
    /\ Len(gen.result[1]) = Len(gen.prefix.v) + 5

(***************************************************************************)
(* Properties of the two decryptApiKey                                     *)
(***************************************************************************)
\* C26: on every stored string and every key, the utility's decryptApiKey and
\* the Worker's decryptApiKey return the same: the same plaintext, or null both.
C26_DecryptsAgree ==
    /\ call.op = "decrypt"
         => call.result = WorkerDecryptApiKey(encryptedKeys[call.idx], call.key)
    /\ call.op = "workerDecrypt"
         => call.result = decryptApiKey(encryptedKeys[call.idx], call.key)

====
